---- MODULE Spec2Model ----
(***************************************************************************)
(* Model of the asynchronous dispatch-and-reorder loop of                  *)
(* demos/object_detection_demo_ssd_async/main.cpp (sections 6-8 of main).  *)
(*                                                                         *)
(* One control thread (the main loop, position pc) and one completion      *)
(* callback per InferRequest (position slot[s].st) share emptyRequests,    *)
(* completedRequestResults, isUserSpecifiedMode and callbackException.     *)
(* The callbacks run their body under std::mutex; the main thread takes    *)
(* the mutex only at lines 365 and 567, so every other access of the main  *)
(* thread to shared state is a step of its own that callbacks interleave   *)
(* with.  Container operations are atomic steps taken in either order,     *)
(* which yields both values an unsynchronised read can return.             *)
(***************************************************************************)
EXTENDS Integers, Sequences, FiniteSets, TLC

\* ---- bounds of the model -------------------------------------------------
NIREQ == 2          \* FLAGS_nireq: size of the user-specified pool
MaxFrames == 4      \* frames the input source can yield before read fails
MaxTabs == 2        \* TAB key presses in one run
MaxThrows == 2      \* completion callbacks that raise an exception
LongFrames == 5     \* frames of the long source of SpecLong

VARIABLES
    pc,                        \* position of the main thread
    capOpened,                 \* cap.isOpened()
    framesLeft,                \* frames cap.read can still return
    isUserSpecifiedMode,       \* line 317
    emptyRequests,             \* line 327, queue of free InferRequests
    completedRequestResults,   \* line 334, map frame id -> RequestResult
    nextFrameId,               \* line 335
    nextFrameIdToShow,         \* line 336
    callbackException,         \* line 337, NoException or the id that threw
    mutex,                     \* line 338: "free", "main" or "cb"
    modeInfo,                  \* line 340
    slot,                      \* per InferRequest: state and callback captures
    requestResult,             \* line 363, local of the loop body
    prevMode,                  \* line 470, local of the TAB branch
    toWait,                    \* requests a Wait loop has still to wait for
    quit,                      \* the loop was left by break (line 467)
    delivered,                 \* history: the results handed to the consumer, in
                               \* order, each with the mode active at its delivery
    admittedAtReset,           \* history: nextFrameId at the last reset (line 488)
    busyStart,                 \* history: StartAsync hit a request that was busy
    tabs,                      \* TAB presses so far
    throws                     \* callback exceptions so far

vars == <<pc, capOpened, framesLeft, isUserSpecifiedMode, emptyRequests,
          completedRequestResults, nextFrameId, nextFrameIdToShow,
          callbackException, mutex, modeInfo, slot, requestResult,
          prevMode, toWait, quit, delivered, admittedAtReset, busyStart, tabs,
          throws>>

\* ---- the two pools -------------------------------------------------------
minLatencyInferRequest == 0
userSpecifiedInferRequests == [i \in 1..NIREQ |-> i]

Range(q) == {q[i] : i \in 1..Len(q)}
Slots == {minLatencyInferRequest} \cup Range(userSpecifiedInferRequests)

\* the requests of a mode, in the order the code iterates over them
PoolOf(mode) == IF mode THEN userSpecifiedInferRequests
                        ELSE <<minLatencyInferRequest>>

NoException == -1
NoResult == [id |-> -1, isSameMode |-> FALSE, frameMode |-> FALSE]

ModeInfo == [framesCount |-> 0, latencySum |-> 0, ended |-> FALSE]

IdleSlot == [st |-> "idle", id |-> -1, frameMode |-> FALSE]

Busy(s) == slot[s].st # "idle"

\* ---- initial state (lines 317-340) --------------------------------------
Init ==
    /\ pc = "cond"
    /\ capOpened = TRUE
    /\ framesLeft \in 0..MaxFrames
    /\ isUserSpecifiedMode = TRUE
    /\ emptyRequests = PoolOf(TRUE)
    /\ completedRequestResults = {}
    /\ nextFrameId = 0
    /\ nextFrameIdToShow = 0
    /\ callbackException = NoException
    /\ mutex = "free"
    /\ modeInfo = [m \in BOOLEAN |-> ModeInfo]
    /\ slot = [s \in Slots |-> IdleSlot]
    /\ requestResult = NoResult
    /\ prevMode = TRUE
    /\ toWait = <<>>
    /\ quit = FALSE
    /\ delivered = <<>>
    /\ admittedAtReset = 0
    /\ busyStart = FALSE
    /\ tabs = 0
    /\ throws = 0

\* ---- main loop: the while condition (lines 355-359) ---------------------
\* cap.isOpened() || !completedRequestResults.empty()
CondOpenOrBuffered(cap, buf) == cap \/ buf # {}

\* (isUserSpecifiedMode && emptyRequests.size() < FLAGS_nireq)
\*   || (!isUserSpecifiedMode && emptyRequests.size() == 0)
CondRequestBusy(mode, q) ==
    \/ mode /\ Len(q) < NIREQ
    \/ ~mode /\ Len(q) = 0

\* lines 355-356: the first two operands of the || chain
LoopCond ==
    /\ pc = "cond"
    /\ pc' = IF CondOpenOrBuffered(capOpened, completedRequestResults)
             THEN "cond_exc" ELSE "cond_req"
    /\ UNCHANGED <<capOpened, framesLeft, isUserSpecifiedMode, emptyRequests,
                   completedRequestResults, nextFrameId, nextFrameIdToShow,
                   callbackException, mutex, modeInfo, slot, requestResult, prevMode, toWait, quit, delivered, admittedAtReset,
                   busyStart, tabs, throws>>

\* lines 357-358: the last operand, read after the first two were false
LoopCondRequests ==
    /\ pc = "cond_req"
    /\ IF CondRequestBusy(isUserSpecifiedMode, emptyRequests)
       THEN pc' = "cond_exc" /\ UNCHANGED toWait
       ELSE pc' = "report" /\ toWait' = PoolOf(isUserSpecifiedMode)
    /\ UNCHANGED <<capOpened, framesLeft, isUserSpecifiedMode, emptyRequests,
                   completedRequestResults, nextFrameId, nextFrameIdToShow,
                   callbackException, mutex, modeInfo, slot, requestResult, prevMode, quit, delivered, admittedAtReset,
                   busyStart, tabs, throws>>

\* line 359: && callbackException == nullptr
LoopCondException ==
    /\ pc = "cond_exc"
    /\ IF callbackException = NoException
       THEN pc' = "rethrow" /\ UNCHANGED toWait
       ELSE pc' = "report" /\ toWait' = PoolOf(isUserSpecifiedMode)
    /\ UNCHANGED <<capOpened, framesLeft, isUserSpecifiedMode, emptyRequests,
                   completedRequestResults, nextFrameId, nextFrameIdToShow,
                   callbackException, mutex, modeInfo, slot, requestResult, prevMode, quit, delivered, admittedAtReset,
                   busyStart, tabs, throws>>

\* line 360: if (callbackException) std::rethrow_exception(callbackException);
\* the exception leaves the try block and is caught at line 630: return 1
Rethrow ==
    /\ pc = "rethrow"
    /\ pc' = IF callbackException # NoException THEN "exit1" ELSE "lock"
    /\ UNCHANGED <<capOpened, framesLeft, isUserSpecifiedMode, emptyRequests,
                   completedRequestResults, nextFrameId, nextFrameIdToShow,
                   callbackException, mutex, modeInfo, slot, requestResult, prevMode, toWait, quit, delivered, admittedAtReset,
                   busyStart, tabs, throws>>

\* ---- main loop: look up the next frame to show (lines 363-372) ----------
\* line 365: std::lock_guard<std::mutex> lock(mutex);
LockForFind ==
    /\ pc = "lock"
    /\ mutex = "free"
    /\ mutex' = "main"
    /\ pc' = "find"
    /\ UNCHANGED <<capOpened, framesLeft, isUserSpecifiedMode, emptyRequests,
                   completedRequestResults, nextFrameId, nextFrameIdToShow,
                   callbackException, modeInfo, slot, requestResult, prevMode, toWait, quit, delivered, admittedAtReset,
                   busyStart, tabs, throws>>

\* mutant: the lookup takes the first completed result, whatever its id
FindResult_First(buf, id) ==
    IF buf = {} THEN {}
    ELSE {CHOOSE r \in buf : \A o \in buf : r.id <= o.id}

\* mutant: the lookup takes the newest completed result, whatever its id
FindResult_Latest(buf, id) ==
    IF buf = {} THEN {}
    ELSE {CHOOSE r \in buf : \A o \in buf : r.id >= o.id}

\* completedRequestResults.find(id): the entries with that key (none or one)
FindResult(buf, id) == {r \in buf : r.id = id}

\* mutant: the lookup without the erase of line 370
Find_NoErase ==
    /\ pc = "find"
    /\ LET found == FindResult(completedRequestResults, nextFrameIdToShow) IN
       IF found # {}
       THEN /\ requestResult' = CHOOSE r \in found : TRUE
            /\ completedRequestResults' = completedRequestResults
            /\ pc' = "deliver"
       ELSE /\ requestResult' = NoResult
            /\ UNCHANGED completedRequestResults
            /\ pc' = "admit"
    /\ mutex' = "free"
    /\ UNCHANGED <<capOpened, framesLeft, isUserSpecifiedMode, emptyRequests,
                   nextFrameId, nextFrameIdToShow, callbackException,
                   modeInfo, slot, prevMode, toWait, quit,
                   delivered, admittedAtReset, busyStart, tabs, throws>>

\* mutant: a lookup that fails skips the missing id
Find_SkipMissing ==
    /\ pc = "find"
    /\ LET found == FindResult(completedRequestResults, nextFrameIdToShow) IN
       IF found # {}
       THEN /\ requestResult' = CHOOSE r \in found : TRUE
            /\ completedRequestResults' = completedRequestResults \ found
            /\ pc' = "deliver"
            /\ UNCHANGED nextFrameIdToShow
       ELSE /\ requestResult' = NoResult
            /\ UNCHANGED completedRequestResults
            /\ pc' = "admit"
            /\ nextFrameIdToShow' = nextFrameIdToShow + 1
    /\ mutex' = "free"
    /\ UNCHANGED <<capOpened, framesLeft, isUserSpecifiedMode, emptyRequests,
                   nextFrameId, callbackException,
                   modeInfo, slot, prevMode, toWait, quit,
                   delivered, admittedAtReset, busyStart, tabs, throws>>

\* lines 367-372: find, copy and erase under the lock; the guard ends at 372
Find ==
    /\ pc = "find"
    /\ LET found == FindResult(completedRequestResults, nextFrameIdToShow) IN
       IF found # {}
       THEN /\ requestResult' = CHOOSE r \in found : TRUE
            /\ completedRequestResults' = completedRequestResults \ found
            /\ pc' = "deliver"
       ELSE /\ requestResult' = NoResult
            /\ UNCHANGED completedRequestResults
            /\ pc' = "admit"
    /\ mutex' = "free"
    /\ UNCHANGED <<capOpened, framesLeft, isUserSpecifiedMode, emptyRequests,
                   nextFrameId, nextFrameIdToShow, callbackException,
                   modeInfo, slot, prevMode, toWait, quit,
                   delivered, admittedAtReset, busyStart, tabs, throws>>

\* ---- main loop: deliver (lines 374-496) ---------------------------------
\* lines 380-382 and 447: the metrics of the mode that is active NOW
CountFrame(info, mode, res) ==
    [info EXCEPT ![mode] =
        [@ EXCEPT !.framesCount = IF res.isSameMode THEN @ + 1 ELSE @,
                  !.latencySum = @ + 1]]

\* keys cv::waitKey can return at line 463 (any other key only reaches
\* presenter.handleKey); TAB presses are bounded by MaxTabs
Keys == {"none", "esc"} \cup (IF tabs < MaxTabs THEN {"tab"} ELSE {})

\* lines 374-468 and 490-496: the result is shown, then the key is handled
Deliver ==
    /\ pc = "deliver"
    /\ nextFrameIdToShow' = nextFrameIdToShow + 1
    /\ modeInfo' = CountFrame(modeInfo, isUserSpecifiedMode, requestResult)
    /\ delivered' = Append(delivered,
                            [id |-> requestResult.id,
                             frameMode |-> requestResult.frameMode,
                             isSameMode |-> requestResult.isSameMode,
                             mode |-> isUserSpecifiedMode])
    /\ requestResult' = NoResult
    /\ \E key \in Keys :
          \/ /\ key = "none"
             /\ pc' = "cond"
             /\ UNCHANGED <<quit, toWait, tabs>>
          \/ /\ key = "esc"            \* line 466-467: break
             /\ pc' = "report"
             /\ quit' = TRUE
             /\ toWait' = PoolOf(isUserSpecifiedMode)
             /\ UNCHANGED tabs
          \/ /\ key = "tab"            \* line 469
             /\ pc' = "tab_flip"
             /\ tabs' = tabs + 1
             /\ UNCHANGED <<quit, toWait>>
    /\ UNCHANGED <<capOpened, framesLeft, isUserSpecifiedMode, emptyRequests,
                   completedRequestResults, nextFrameId, callbackException,
                   mutex, slot, prevMode, admittedAtReset, busyStart, throws>>

\* ---- main loop: the TAB mode switch (lines 469-489) ---------------------
\* the pool the switch waits for: chosen by the flag AFTER the flip (473)
PoolToDrain(prev, now) == PoolOf(now)

\* lines 470-471: prevMode = isUserSpecifiedMode; isUserSpecifiedMode ^= true
TabFlip ==
    /\ pc = "tab_flip"
    /\ prevMode' = isUserSpecifiedMode
    /\ isUserSpecifiedMode' = ~isUserSpecifiedMode
    /\ toWait' = PoolToDrain(isUserSpecifiedMode, ~isUserSpecifiedMode)
    /\ pc' = "tab_wait"
    /\ UNCHANGED <<capOpened, framesLeft, emptyRequests,
                   completedRequestResults, nextFrameId, nextFrameIdToShow,
                   callbackException, mutex, modeInfo, slot, requestResult,
                   quit, delivered, admittedAtReset, busyStart, tabs, throws>>

\* mutant: Wait returns at once, whatever the request is doing
WaitReturns_NoBlock(s) == TRUE

\* request->Wait(RESULT_READY): returns once the request is idle, that is
\* once its inference has finished and its completion callback has returned
WaitReturns(s) == ~Busy(s)

\* lines 473-477: one Wait of the loop returns
TabWait ==
    /\ pc = "tab_wait"
    /\ toWait # <<>>
    /\ WaitReturns(Head(toWait))
    /\ toWait' = Tail(toWait)
    /\ UNCHANGED <<pc, capOpened, framesLeft, isUserSpecifiedMode,
                   emptyRequests, completedRequestResults, nextFrameId,
                   nextFrameIdToShow, callbackException, mutex, modeInfo,
                   slot, requestResult, prevMode, quit, delivered, admittedAtReset, busyStart, tabs, throws>>

\* lines 479-480: std::swap(emptyRequests, emptyQueue)
TabSwap ==
    /\ pc = "tab_wait"
    /\ toWait = <<>>
    /\ emptyRequests' = <<>>
    /\ pc' = "tab_refill"
    /\ UNCHANGED <<capOpened, framesLeft, isUserSpecifiedMode,
                   completedRequestResults, nextFrameId, nextFrameIdToShow,
                   callbackException, mutex, modeInfo, slot, requestResult, prevMode, toWait, quit, delivered, admittedAtReset,
                   busyStart, tabs, throws>>

\* mutant: the switch resets the metrics of both modes
ResetModeInfo_Both(info, prev, now) == [m \in BOOLEAN |-> ModeInfo]

\* lines 487-488: stamp the previous mode, reset the new one
ResetModeInfo(info, prev, now) ==
    [[info EXCEPT ![prev] = [@ EXCEPT !.ended = TRUE]] EXCEPT ![now] = ModeInfo]

\* lines 481-488: push every request of the new mode, then the metrics
TabRefill ==
    /\ pc = "tab_refill"
    /\ emptyRequests' = emptyRequests \o PoolOf(isUserSpecifiedMode)
    /\ modeInfo' = ResetModeInfo(modeInfo, prevMode, isUserSpecifiedMode)
    /\ admittedAtReset' = nextFrameId
    /\ pc' = "cond"
    /\ UNCHANGED <<capOpened, framesLeft, isUserSpecifiedMode,
                   completedRequestResults, nextFrameId, nextFrameIdToShow,
                   callbackException, mutex, slot, requestResult, prevMode,
                   toWait, quit, delivered, busyStart, tabs, throws>>

\* ---- main loop: admit (lines 497-565) -----------------------------------
\* mutant: the admit branch is taken whatever the state of the source
CanAdmit_IgnoreSource(q, cap) == q # <<>>

\* line 497: else if (!emptyRequests.empty() && cap.isOpened())
CanAdmit(q, cap) == q # <<>> /\ cap

\* lines 497-514: the branch is chosen and a frame is read; a failed read
\* releases the capture (FLAGS_loop_input is off) and continues the loop
Admit ==
    /\ pc = "admit"
    /\ IF CanAdmit(emptyRequests, capOpened)
       THEN IF framesLeft = 0
            THEN /\ capOpened' = FALSE
                 /\ pc' = "cond"
                 /\ UNCHANGED framesLeft
            ELSE /\ framesLeft' = framesLeft - 1
                 /\ pc' = "submit"
                 /\ UNCHANGED capOpened
       ELSE /\ pc' = "lock_wait"
            /\ UNCHANGED <<capOpened, framesLeft>>
    /\ UNCHANGED <<isUserSpecifiedMode, emptyRequests,
                   completedRequestResults, nextFrameId, nextFrameIdToShow,
                   callbackException, mutex, modeInfo, slot, requestResult, prevMode, toWait, quit, delivered, admittedAtReset,
                   busyStart, tabs, throws>>

\* mutant: the callback captures the id after the increment of line 564
Captures_AfterIncrement(id, mode) ==
    [st |-> "running", id |-> id + 1, frameMode |-> mode]

\* lines 522-536: the values the completion callback captures by copy
Captures(id, mode) == [st |-> "running", id |-> id, frameMode |-> mode]

\* mutant: the admit branch without the nextFrameId++ of line 564
Submit_NoIncrement ==
    /\ pc = "submit"
    /\ LET r == Head(emptyRequests) IN
       /\ emptyRequests' = Tail(emptyRequests)
       /\ IF ~Busy(r)
          THEN /\ slot' = [slot EXCEPT ![r] =
                               Captures(nextFrameId, isUserSpecifiedMode)]
               /\ nextFrameId' = nextFrameId
               /\ pc' = "cond"
               /\ UNCHANGED busyStart
          ELSE /\ \/ UNCHANGED slot
                  \/ slot' = [slot EXCEPT ![r] =
                                 [@ EXCEPT !.id = nextFrameId,
                                           !.frameMode = isUserSpecifiedMode]]
               /\ busyStart' = TRUE
               /\ pc' = "exit1"
               /\ UNCHANGED nextFrameId
    /\ UNCHANGED <<capOpened, framesLeft, isUserSpecifiedMode,
                   completedRequestResults, nextFrameIdToShow,
                   callbackException, mutex, modeInfo, requestResult, prevMode, toWait, quit, delivered, admittedAtReset,
                   tabs, throws>>

\* lines 516-564: pop a free request, set its callback, StartAsync, count.
\* StartAsync on a request that is still busy fails (the exception leaves the
\* try block, line 630); the callback set at 523 on such a request replaces
\* the callback of the submission in flight or not, either can happen.
Submit ==
    /\ pc = "submit"
    /\ LET r == Head(emptyRequests) IN
       /\ emptyRequests' = Tail(emptyRequests)
       /\ IF ~Busy(r)
          THEN /\ slot' = [slot EXCEPT ![r] =
                               Captures(nextFrameId, isUserSpecifiedMode)]
               /\ nextFrameId' = nextFrameId + 1
               /\ pc' = "cond"
               /\ UNCHANGED busyStart
          ELSE /\ \/ UNCHANGED slot
                  \/ slot' = [slot EXCEPT ![r] =
                                 [@ EXCEPT !.id = nextFrameId,
                                           !.frameMode = isUserSpecifiedMode]]
               /\ busyStart' = TRUE
               /\ pc' = "exit1"
               /\ UNCHANGED nextFrameId
    /\ UNCHANGED <<capOpened, framesLeft, isUserSpecifiedMode,
                   completedRequestResults, nextFrameIdToShow,
                   callbackException, mutex, modeInfo, requestResult, prevMode, toWait, quit, delivered, admittedAtReset,
                   tabs, throws>>

\* ---- main loop: wait (lines 566-573) ------------------------------------
\* line 567: std::unique_lock<std::mutex> lock(mutex); also the re-lock with
\* which condVar.wait returns after a notification
LockForWait ==
    /\ pc \in {"lock_wait", "wake"}
    /\ mutex = "free"
    /\ mutex' = "main"
    /\ pc' = "pred"
    /\ UNCHANGED <<capOpened, framesLeft, isUserSpecifiedMode, emptyRequests,
                   completedRequestResults, nextFrameId, nextFrameIdToShow,
                   callbackException, modeInfo, slot, requestResult, prevMode, toWait, quit, delivered, admittedAtReset,
                   busyStart, tabs, throws>>

\* line 569: the condition of the wait loop
MustWait(exc, q, buf) == exc = NoException /\ q = <<>> /\ buf = {}

\* lines 569-573: wait (the mutex is released atomically) or leave the scope
WaitOrGo ==
    /\ pc = "pred"
    /\ pc' = IF MustWait(callbackException, emptyRequests,
                         completedRequestResults)
             THEN "cvwait" ELSE "cond"
    /\ mutex' = "free"
    /\ UNCHANGED <<capOpened, framesLeft, isUserSpecifiedMode, emptyRequests,
                   completedRequestResults, nextFrameId, nextFrameIdToShow,
                   callbackException, modeInfo, slot, requestResult, prevMode, toWait, quit, delivered, admittedAtReset,
                   busyStart, tabs, throws>>

\* ---- after the loop (lines 578-640) -------------------------------------
\* lines 584-588: one Wait on a request of the mode active at the end
FinalWait ==
    /\ pc = "report"
    /\ toWait # <<>>
    /\ WaitReturns(Head(toWait))
    /\ toWait' = Tail(toWait)
    /\ UNCHANGED <<pc, capOpened, framesLeft, isUserSpecifiedMode,
                   emptyRequests, completedRequestResults, nextFrameId,
                   nextFrameIdToShow, callbackException, mutex, modeInfo,
                   slot, requestResult, prevMode, quit, delivered, admittedAtReset, busyStart, tabs, throws>>

\* lines 590-640: the reports are printed and main returns 0
Return0 ==
    /\ pc = "report"
    /\ toWait = <<>>
    /\ pc' = "exit0"
    /\ UNCHANGED <<capOpened, framesLeft, isUserSpecifiedMode, emptyRequests,
                   completedRequestResults, nextFrameId, nextFrameIdToShow,
                   callbackException, mutex, modeInfo, slot, requestResult, prevMode, toWait, quit, delivered, admittedAtReset,
                   busyStart, tabs, throws>>

\* condVar.wait may also return without a notification
SpuriousWake ==
    /\ pc = "cvwait"
    /\ pc' = "wake"
    /\ UNCHANGED <<capOpened, framesLeft, isUserSpecifiedMode, emptyRequests,
                   completedRequestResults, nextFrameId, nextFrameIdToShow,
                   callbackException, mutex, modeInfo, slot, requestResult,
                   prevMode, toWait, quit, delivered, admittedAtReset,
                   busyStart, tabs, throws>>

\* ---- the completion callback of request s (lines 536-561) ---------------
\* line 539: the inference has finished, the callback takes the mutex
CbLock(s) ==
    /\ slot[s].st = "running"
    /\ mutex = "free"
    /\ mutex' = "cb"
    /\ slot' = [slot EXCEPT ![s] = [@ EXCEPT !.st = "locked"]]
    /\ UNCHANGED <<pc, capOpened, framesLeft, isUserSpecifiedMode,
                   emptyRequests, completedRequestResults, nextFrameId,
                   nextFrameIdToShow, callbackException, modeInfo,
                   requestResult, prevMode, toWait, quit, delivered, admittedAtReset, busyStart, tabs, throws>>

\* line 548: the flag stored with the result
IsSameMode(frameMode, mode) == frameMode = mode

\* lines 546-548: std::map::insert keeps an entry that has the key already
InsertResult(buf, res) ==
    IF \E r \in buf : r.id = res.id THEN buf ELSE buf \cup {res}

\* lines 541-548: the result is inserted under the lock
CbInsert(s) ==
    /\ slot[s].st = "locked"
    /\ completedRequestResults' =
          InsertResult(completedRequestResults,
                       [id |-> slot[s].id,
                        isSameMode |-> IsSameMode(slot[s].frameMode,
                                                  isUserSpecifiedMode),
                        frameMode |-> slot[s].frameMode])
    /\ slot' = [slot EXCEPT ![s] = [@ EXCEPT !.st = "check"]]
    /\ UNCHANGED <<pc, capOpened, framesLeft, isUserSpecifiedMode,
                   emptyRequests, nextFrameId, nextFrameIdToShow,
                   callbackException, mutex, modeInfo, requestResult,
                   prevMode, toWait, quit, delivered, admittedAtReset, busyStart,
                   tabs, throws>>

\* mutant: the handler stores every exception, the last one wins
Capture_Last(exc, id) == id

\* lines 555-557: the first exception is kept
Capture(exc, id) == IF exc = NoException THEN id ELSE exc

\* lines 541-559: GetBlob throws before the insert; the handler stores the
\* exception and the lock guard is released, nothing is inserted or pushed
CbThrow(s) ==
    /\ slot[s].st = "locked"
    /\ throws < MaxThrows
    /\ throws' = throws + 1
    /\ callbackException' = Capture(callbackException, slot[s].id)
    /\ mutex' = "free"
    /\ slot' = [slot EXCEPT ![s] = [@ EXCEPT !.st = "notify"]]
    /\ UNCHANGED <<pc, capOpened, framesLeft, isUserSpecifiedMode,
                   emptyRequests, completedRequestResults, nextFrameId,
                   nextFrameIdToShow, modeInfo, requestResult, prevMode,
                   toWait, quit, delivered, admittedAtReset, busyStart, tabs>>

\* mutant: the callback returns its request whatever the active mode is
PushesRequest_Always(mode, frameMode) == TRUE

\* line 550: if (isUserSpecifiedMode == frameMode)
PushesRequest(mode, frameMode) == mode = frameMode

\* line 550: the flag is read a second time; without a push the guard ends
CbCheck(s) ==
    /\ slot[s].st = "check"
    /\ IF PushesRequest(isUserSpecifiedMode, slot[s].frameMode)
       THEN /\ slot' = [slot EXCEPT ![s] = [@ EXCEPT !.st = "push"]]
            /\ UNCHANGED mutex
       ELSE /\ slot' = [slot EXCEPT ![s] = [@ EXCEPT !.st = "notify"]]
            /\ mutex' = "free"
    /\ UNCHANGED <<pc, capOpened, framesLeft, isUserSpecifiedMode,
                   emptyRequests, completedRequestResults, nextFrameId,
                   nextFrameIdToShow, callbackException, modeInfo,
                   requestResult, prevMode, toWait, quit, delivered, admittedAtReset, busyStart, tabs, throws>>

\* lines 551-559: emptyRequests.push(request); the lock guard is released
CbPush(s) ==
    /\ slot[s].st = "push"
    /\ emptyRequests' = Append(emptyRequests, s)
    /\ mutex' = "free"
    /\ slot' = [slot EXCEPT ![s] = [@ EXCEPT !.st = "notify"]]
    /\ UNCHANGED <<pc, capOpened, framesLeft, isUserSpecifiedMode,
                   completedRequestResults, nextFrameId, nextFrameIdToShow,
                   callbackException, modeInfo, requestResult, prevMode,
                   toWait, quit, delivered, admittedAtReset, busyStart, tabs, throws>>

\* mutant: the callback returns without condVar.notify_one()
CbNotify_NoSignal(s) ==
    /\ slot[s].st = "notify"
    /\ slot' = [slot EXCEPT ![s] = IdleSlot]
    /\ UNCHANGED <<pc, capOpened, framesLeft, isUserSpecifiedMode,
                   emptyRequests, completedRequestResults, nextFrameId,
                   nextFrameIdToShow, callbackException, mutex, modeInfo,
                   requestResult, prevMode, toWait, quit, delivered,
                   admittedAtReset, busyStart, tabs, throws>>

\* lines 560-561: condVar.notify_one(); the callback returns and the request
\* is idle again
CbNotify(s) ==
    /\ slot[s].st = "notify"
    /\ slot' = [slot EXCEPT ![s] = IdleSlot]
    /\ pc' = IF pc = "cvwait" THEN "wake" ELSE pc
    /\ UNCHANGED <<capOpened, framesLeft, isUserSpecifiedMode, emptyRequests,
                   completedRequestResults, nextFrameId, nextFrameIdToShow,
                   callbackException, mutex, modeInfo, requestResult,
                   prevMode, toWait, quit, delivered, admittedAtReset, busyStart,
                   tabs, throws>>

\* ---- the program ----------------------------------------------------------
Next ==
    \/ LoopCond
    \/ LoopCondRequests
    \/ LoopCondException
    \/ Rethrow
    \/ LockForFind
    \/ Find
    \/ Deliver
    \/ TabFlip
    \/ TabWait
    \/ TabSwap
    \/ TabRefill
    \/ Admit
    \/ Submit
    \/ LockForWait
    \/ WaitOrGo
    \/ SpuriousWake
    \/ FinalWait
    \/ Return0
    \/ \E s \in Slots : CbLock(s)
    \/ \E s \in Slots : CbInsert(s)
    \/ \E s \in Slots : CbThrow(s)
    \/ \E s \in Slots : CbCheck(s)
    \/ \E s \in Slots : CbPush(s)
    \/ \E s \in Slots : CbNotify(s)

Spec == Init /\ [][Next]_vars

\* the same program, also run on a longer source that is watched without
\* TAB presses and on which no callback fails
InitLong ==
    \/ Init
    \/ /\ pc = "cond"
       /\ capOpened = TRUE
       /\ framesLeft = LongFrames
       /\ isUserSpecifiedMode = TRUE
       /\ emptyRequests = PoolOf(TRUE)
       /\ completedRequestResults = {}
       /\ nextFrameId = 0
       /\ nextFrameIdToShow = 0
       /\ callbackException = NoException
       /\ mutex = "free"
       /\ modeInfo = [m \in BOOLEAN |-> ModeInfo]
       /\ slot = [s \in Slots |-> IdleSlot]
       /\ requestResult = NoResult
       /\ prevMode = TRUE
       /\ toWait = <<>>
       /\ quit = FALSE
       /\ delivered = <<>>
       /\ admittedAtReset = 0
       /\ busyStart = FALSE
       /\ tabs = MaxTabs
       /\ throws = MaxThrows

SpecLong == InitLong /\ [][Next]_vars

\* ---- vocabulary of the properties ----------------------------------------
\* the loop ended by its own condition: no quit key, no callback exception
NormalExit ==
    /\ pc \in {"report", "exit0"}
    /\ ~quit
    /\ callbackException = NoException

\* a unit whose result is neither in the buffer nor delivered yet
InFlight(s) == slot[s].st \in {"running", "locked"}

\* the inference of s or the locked body of its callback is still under way
\* (only the final notify_one of a callback may be pending otherwise)
Working(s) == slot[s].st \in {"running", "locked", "check", "push"}

SlotsOf(mode) == Range(PoolOf(mode))

\* ---- C1 -------------------------------------------------------------------
\* C1: the k-th result handed to the consumer has sequence id k-1, whatever
\* the completion order and the mode switches: no id is skipped or repeated.
C1_InOrderDelivery ==
    \A k \in 1..Len(delivered) : delivered[k].id = k - 1

\* a result was buffered ahead of the expected one after a mode switch, and
\* a result has been delivered
C1_Witness ==
    /\ Len(delivered) >= 1
    /\ tabs >= 1
    /\ \E r \in completedRequestResults : r.id > nextFrameIdToShow
    /\ FindResult(completedRequestResults, nextFrameIdToShow) = {}

\* ---- C2 -------------------------------------------------------------------
\* C2: when the loop ends normally and no callback threw, every admitted unit
\* has been delivered: the consumer got exactly nextFrameId deliveries.
C2_AllDelivered ==
    (NormalExit /\ throws = 0) => Len(delivered) = nextFrameId

\* ---- C3 -------------------------------------------------------------------
\* C3: at normal loop exit the source is exhausted, the buffer is empty, no
\* unit is in flight and nextFrameIdToShow equals nextFrameId.
C3_ExitOnlyWhenDrained ==
    (NormalExit /\ throws = 0) =>
        /\ ~capOpened
        /\ completedRequestResults = {}
        /\ \A s \in Slots : ~InFlight(s)
        /\ nextFrameIdToShow = nextFrameId

\* ---- C4 -------------------------------------------------------------------
\* C4: a delivery that increments framesCount increments it for the mode that
\* was active when the unit was submitted.
C4_CountedInSubmitMode ==
    \A k \in 1..Len(delivered) :
        delivered[k].isSameMode => delivered[k].mode = delivered[k].frameMode

\* ---- C5 -------------------------------------------------------------------
\* C5: when the switch resets the new mode's ModeInfo, every unit submitted
\* under the previous mode has been delivered and counted for that mode.
C5_OldUnitsCountedBeforeReset ==
    (pc = "tab_refill" /\ throws = 0) =>
        /\ \A s \in Slots : Working(s) => slot[s].frameMode # prevMode
        /\ \A r \in completedRequestResults : r.frameMode # prevMode
        /\ \A k \in 1..Len(delivered) :
              delivered[k].frameMode = prevMode =>
                  delivered[k].isSameMode /\ delivered[k].mode = prevMode

\* ---- C6 -------------------------------------------------------------------
\* C6: the switch reaches the rebuild of the free-slot set only when every
\* request of the PREVIOUS mode has finished and its callback has run.
C6_PreviousPoolDrained ==
    ((pc = "tab_wait" /\ toWait = <<>>) \/ pc = "tab_refill") =>
        \A s \in SlotsOf(prevMode) : ~Working(s)

\* ---- C7 -------------------------------------------------------------------
\* C7: outside a switch the free-slot set holds only requests of the active
\* pool, each at most once, so every admission uses a request of that pool.
C7_FreeSetIsActivePool ==
    (pc \notin {"tab_wait", "tab_refill"}) =>
        /\ Range(emptyRequests) \subseteq SlotsOf(isUserSpecifiedMode)
        /\ Cardinality(Range(emptyRequests)) = Len(emptyRequests)

\* ---- C8 -------------------------------------------------------------------
\* C8: StartAsync is never called on a request whose previous submission has
\* not finished its completion callback.
C8_NeverStartBusy == ~busyStart

\* ---- C9 -------------------------------------------------------------------
\* C9: every step that changes emptyRequests, completedRequestResults,
\* isUserSpecifiedMode or modeInfo is taken by the thread holding the mutex.
C9_MutationUnderLock ==
    [][(\/ emptyRequests' # emptyRequests
        \/ completedRequestResults' # completedRequestResults
        \/ isUserSpecifiedMode' # isUserSpecifiedMode
        \/ modeInfo' # modeInfo)
       => IF pc' # pc THEN mutex = "main" ELSE mutex = "cb"]_vars

\* ---- C10 ------------------------------------------------------------------
\* C10: a run in which a callback exception was captured never ends with
\* exit status 0.
C10_ExceptionMeansError ==
    pc = "exit0" => callbackException = NoException

\* ---- C11 ------------------------------------------------------------------
\* the main thread is evaluating the while condition (lines 355-359)
AtLoopTop == pc \in {"cond", "cond_req", "cond_exc"}

\* the main thread has left the loop
LoopLeft == pc \in {"report", "exit0", "exit1"}

\* C11: a stored callbackException is never overwritten, and an iteration
\* whose condition is evaluated after it was stored does not enter the loop
\* body, so no unit is admitted in any later iteration.
C11_FirstExceptionWins ==
    [][/\ callbackException # NoException
          => callbackException' = callbackException
       /\ (callbackException # NoException /\ AtLoopTop)
          => (AtLoopTop' \/ LoopLeft')
       /\ LoopLeft => (LoopLeft' /\ nextFrameId' = nextFrameId)]_vars

\* a second callback has thrown after the first exception was stored
C11_Witness ==
    /\ throws = 2
    /\ callbackException # NoException
    /\ \E s \in Slots : slot[s].st = "notify" /\ slot[s].id # callbackException

\* ---- C12 ------------------------------------------------------------------
\* C12: when main returns after the loop ended (source exhausted, quit key,
\* with or without mode switches), no request of either pool is still running
\* its inference or the body of its callback.
C12_AllPoolsDrainedAtExit ==
    pc = "exit0" => \A s \in Slots : ~Working(s)

\* ---- C13 ------------------------------------------------------------------
\* C13: nextFrameId only ever grows by one, and only in a step that starts a
\* free request whose callback carries the old nextFrameId; a failed read
\* changes neither nextFrameId nor emptyRequests; units in flight have
\* pairwise different ids, all below nextFrameId.
C13_SequentialIds ==
    /\ [](\A s \in Slots : Working(s) =>
             /\ slot[s].id >= 0 /\ slot[s].id < nextFrameId
             /\ \A t \in Slots : (t # s /\ Working(t)) => slot[t].id # slot[s].id)
    /\ [][/\ nextFrameId' # nextFrameId =>
                /\ nextFrameId' = nextFrameId + 1
                /\ pc = "submit"
                /\ \E s \in Slots : /\ ~Busy(s)
                                    /\ slot'[s].st = "running"
                                    /\ slot'[s].id = nextFrameId
          /\ (pc = "admit" /\ pc' = "cond") =>
                /\ nextFrameId' = nextFrameId
                /\ emptyRequests' = emptyRequests
                /\ ~capOpened']_vars

\* a read failed (the capture was released) after units had been admitted
\* with a free request available, and admission had reached id 2
C13_Witness ==
    /\ ~capOpened
    /\ pc = "cond"
    /\ nextFrameId = 3
    /\ emptyRequests # <<>>

\* ---- C14 ------------------------------------------------------------------
\* the ids of a set or sequence of results
IdsOf(results) == {r.id : r \in results}

\* C14: the buffer never holds two results with one id, and a callback that
\* is about to insert carries an id that is neither in the buffer nor among
\* the ids already delivered, so no id is inserted twice during a run.
C14_OneResultPerId ==
    /\ Cardinality(IdsOf(completedRequestResults))
          = Cardinality(completedRequestResults)
    /\ \A s \in Slots : slot[s].st = "locked" =>
          /\ slot[s].id \notin IdsOf(completedRequestResults)
          /\ slot[s].id \notin IdsOf(Range(delivered))
          /\ slot[s].id # requestResult.id

\* a callback is about to insert while the buffer holds an earlier and the
\* consumer has received an even earlier result
C14_Witness ==
    /\ \E s \in Slots : slot[s].st = "locked" /\ slot[s].id = 2
    /\ IdsOf(completedRequestResults) = {1}
    /\ IdsOf(Range(delivered)) = {0}

\* ---- C15 ------------------------------------------------------------------
\* units admitted under mode m whose inference or callback body is under way
UnitsInFlight(m) == {s \in Slots : Working(s) /\ slot[s].frameMode = m}

\* C15: a unit is admitted only from a non-empty free set, and the units in
\* flight that were admitted under the active mode never outnumber the slots
\* of that mode's pool (nireq, or 1 in min-latency mode).
C15_InFlightWithinPool ==
    /\ pc = "submit" => emptyRequests # <<>>
    /\ Cardinality(UnitsInFlight(isUserSpecifiedMode))
          <= Len(PoolOf(isUserSpecifiedMode))

Released(s) ==
    /\ s \notin Range(emptyRequests)
    /\ s \in Range(emptyRequests')
    /\ pc \notin {"tab_wait", "tab_refill"}

C18_MetricsOnlyIfSameMode ==
    [][(pc = "deliver" /\ pc' # pc /\ ~requestResult.isSameMode)
          => modeInfo' = modeInfo]_vars

\* ---- C19 ------------------------------------------------------------------
\* the main thread is outside a mode switch and holds no result, no callback
\* is between its insertion and its return, and no callback has thrown
Settled ==
    /\ pc \in {"cond", "cond_req", "cond_exc", "rethrow", "lock", "find"}
    /\ throws = 0
    /\ \A s \in Slots : slot[s].st \in {"idle", "running", "locked"}

\* the units of mode that have not produced their result yet
BusyOf(mode) == {s \in Slots : InFlight(s) /\ slot[s].frameMode = mode}

\* the buffered results of the units of mode
ResidentOf(mode) == {r \in completedRequestResults : r.frameMode = mode}

\* C19: outside a mode switch, framesCount of the active mode + busy slots +
\* buffered results of the active mode's units = units admitted since the
\* active mode's metrics were last reset.
C19_MetricsAccountForAdmitted ==
    Settled =>
        modeInfo[isUserSpecifiedMode].framesCount
          + Cardinality(BusyOf(isUserSpecifiedMode))
          + Cardinality(ResidentOf(isUserSpecifiedMode))
        = nextFrameId - admittedAtReset

\* ---- C20 ------------------------------------------------------------------
\* the Wait loop of a mode switch (lines 473-477) has returned
DrainReturned == (pc = "tab_wait" /\ toWait = <<>>) \/ pc = "tab_refill"

\* C20: when the Wait loop of a mode switch has returned, every request of
\* the pool it waited for is idle, and an idle request leaves that state only
\* by a submission: no completion callback runs on it before, neither before
\* nor after the free set is rebuilt.
C20_DrainedPoolIdle ==
    /\ [](DrainReturned =>
             \A s \in SlotsOf(isUserSpecifiedMode) : slot[s].st = "idle")
    /\ [][\A s \in Slots : (slot[s].st = "idle" /\ slot'[s].st # "idle")
             => (pc = "submit" /\ pc' # pc /\ slot'[s].st = "running")]_vars

\* the second switch has waited for the user-specified pool, whose units had
\* been submitted before the first switch, and is about to rebuild the free set
C20_Witness ==
    /\ pc = "tab_refill"
    /\ tabs = 2
    /\ isUserSpecifiedMode
    /\ \E r \in completedRequestResults : r.frameMode /\ ~r.isSameMode

\* ---- C21 ------------------------------------------------------------------
\* the lookup of lines 367-372 ends without a result
LookupFails == pc = "find" /\ pc' = "admit"

\* the lookup of lines 367-372 ends with the expected result
LookupSucceeds == pc = "find" /\ pc' = "deliver"

\* C21: a lookup of an id that is not in the buffer returns nothing and
\* changes neither the buffer, the cursor, the free set nor the metrics; the
\* cursor moves only by one, in the delivery that follows a successful
\* lookup, and every successful lookup is followed by that delivery.
C21_FailedLookupNoEffect ==
    /\ [](pc = "deliver" <=> requestResult # NoResult)
    /\ [][/\ LookupFails =>
               /\ nextFrameIdToShow \notin IdsOf(completedRequestResults)
               /\ requestResult' = NoResult
               /\ UNCHANGED <<completedRequestResults, nextFrameIdToShow,
                              emptyRequests, modeInfo>>
          /\ LookupSucceeds =>
               /\ requestResult' \in completedRequestResults
               /\ requestResult'.id = nextFrameIdToShow
               /\ completedRequestResults' =
                      completedRequestResults \ {requestResult'}
               /\ UNCHANGED nextFrameIdToShow
          /\ nextFrameIdToShow' # nextFrameIdToShow =>
               /\ pc = "deliver"
               /\ requestResult.id = nextFrameIdToShow
               /\ nextFrameIdToShow' = nextFrameIdToShow + 1
          /\ (pc = "deliver" /\ pc' # pc) =>
               nextFrameIdToShow' = nextFrameIdToShow + 1]_vars

\* the lookup of id 1 has failed while the later id 2 sits in the buffer
C21_Witness ==
    /\ pc = "admit"
    /\ nextFrameIdToShow = 1
    /\ IdsOf(completedRequestResults) = {2}
    /\ \E s \in Slots : slot[s].st = "running" /\ slot[s].id = 1

\* ---- C22 ------------------------------------------------------------------
\* positions of the main thread inside the deliver and the wait branch
InDeliver == pc \in {"deliver", "tab_flip", "tab_wait", "tab_refill"}
InWait == pc \in {"lock_wait", "pred", "cvwait", "wake"}

\* the branches are chosen by priority and are never mixed in an iteration
BranchPriority ==
    /\ LookupSucceeds <=>
          (pc = "find" /\ pc' # pc
             /\ nextFrameIdToShow \in IdsOf(completedRequestResults))
    /\ (InDeliver /\ ~InDeliver') => pc' \in {"cond", "report"}
    /\ (pc = "admit" /\ pc' # pc) =>
          /\ requestResult = NoResult
          /\ IF emptyRequests # <<>> /\ capOpened
             THEN pc' \in {"submit", "cond"}
             ELSE pc' = "lock_wait"
    /\ (pc = "submit" /\ pc' # pc) => pc' \in {"cond", "exit1"}
    /\ (InWait /\ ~InWait') => pc' = "cond"

\* the iteration ends here
BackToTop == pc' = "cond" /\ pc \notin {"cond", "cond_req", "cond_exc"}

C23_SwitchResetsNewModeOnly ==
    /\ []((pc \in {"tab_wait", "tab_refill"}) =>
             prevMode = ~isUserSpecifiedMode)
    /\ [][/\ (pc = "tab_refill" /\ pc' # pc) =>
               /\ modeInfo'[prevMode] =
                      [modeInfo[prevMode] EXCEPT !.ended = TRUE]
               /\ modeInfo'[isUserSpecifiedMode] = ModeInfo
               /\ pc' = "cond"
          /\ isUserSpecifiedMode' # isUserSpecifiedMode =>
               /\ pc = "tab_flip" /\ pc' = "tab_wait"
               /\ modeInfo' = modeInfo
          /\ (pc = "tab_wait" /\ pc' # pc) =>
               (pc' = "tab_refill" /\ modeInfo' = modeInfo)]_vars

\* a switch is over: the previous mode keeps the frame it counted and its
\* window is closed, the new mode starts from fresh metrics
C23_Witness ==
    /\ pc = "cond"
    /\ tabs = 1
    /\ prevMode = ~isUserSpecifiedMode
    /\ modeInfo[prevMode].framesCount = 1
    /\ modeInfo[prevMode].latencySum = 1
    /\ modeInfo[prevMode].ended
    /\ modeInfo[isUserSpecifiedMode] = ModeInfo

\* ---- C24 ------------------------------------------------------------------
\* the backend completes every inference it was given and every completion
\* callback runs to its end; nothing is assumed about the main thread or
\* about wake-ups without notification
CallbackFairness ==
    \A s \in Slots :
        /\ WF_vars(CbLock(s))
        /\ WF_vars(CbInsert(s) \/ CbThrow(s))
        /\ WF_vars(CbCheck(s))
        /\ WF_vars(CbPush(s))
        /\ WF_vars(CbNotify(s))

SpecFair == Spec /\ CallbackFairness

\* the main thread is blocked in condVar.wait (line 571)
Blocked == pc = "cvwait"

\* C24: whenever the main thread is blocked in the wait, a unit is in flight
\* whose callback has still to notify, and under fair completion of the
\* backend the main thread does not stay blocked.
C24_NoLostWakeup ==
    /\ [](Blocked => \E s \in Slots : Busy(s))
    /\ (Blocked ~> ~Blocked)

\* the main thread is blocked with both requests of the pool running
C24_Witness ==
    /\ Blocked
    /\ emptyRequests = <<>>
    /\ completedRequestResults = {}
    /\ \A s \in SlotsOf(TRUE) : slot[s].st = "running"

\* ---- C25 ------------------------------------------------------------------
\* the main thread reads emptyRequests in the while condition (356-357) or
\* takes a request from it in the admit branch (497, 516-517)
ReadsFreeQueue == pc \in {"cond", "cond_req", "admit", "submit"}

\* C25: when the loop condition is evaluated or a unit is admitted, the free
\* queue holds no request twice, only requests of the active pool, and no
\* more entries than the active pool has requests.
C25_FreeQueueWellFormed ==
    ReadsFreeQueue =>
        /\ \A i, j \in 1..Len(emptyRequests) :
               emptyRequests[i] = emptyRequests[j] => i = j
        /\ \A i \in 1..Len(emptyRequests) :
               emptyRequests[i] \in SlotsOf(isUserSpecifiedMode)
        /\ Len(emptyRequests) <= Len(PoolOf(isUserSpecifiedMode))

\* ---- C26 ------------------------------------------------------------------
\* C26: every id in the buffer is at least nextFrameIdToShow (no entry that
\* the cursor has passed stays in the buffer), and nextFrameIdToShow never
\* exceeds the number of units admitted, nextFrameId.
C26_NoStaleResult ==
    /\ \A r \in completedRequestResults : r.id >= nextFrameIdToShow
    /\ nextFrameIdToShow <= nextFrameId

\* two units were delivered and the next two wait in the buffer, the expected
\* one among them
C26_Witness ==
    /\ nextFrameIdToShow = 2
    /\ nextFrameId = 4
    /\ IdsOf(completedRequestResults) = {2, 3}

====
